---- MODULE Spec2Model ----
(***************************************************************************)
(* captcha-ark: a token sale gated by a CAPTCHA.                           *)
(*                                                                         *)
(*   src/token-sale-contract/src/lib.rs  TokenSaleContract: buy_tokens     *)
(*       forwards the attached deposit to the OutLayer executor and chains *)
(*       the callback on_captcha_verified, which commits or refunds.       *)
(*   src/src/main.rs  the WASI program the executor runs: main and         *)
(*       verify_captcha talk to the launchpad's challenge service.         *)
(*                                                                         *)
(* Amounts are counted in units of 10^17 yoctoNEAR (the value of           *)
(* MIN_PURCHASE, which divides every amount literal of lib.rs), so that    *)
(* the literals fit the model checker's integers; the arithmetic of the    *)
(* contract on multiples of that unit is exact.                            *)
(***************************************************************************)
EXTENDS Integers, Sequences, FiniteSets, TLC

VARIABLES
    owner,          \* TokenSaleContract.owner
    tokens_sold,    \* TokenSaleContract.tokens_sold
    total_supply,   \* TokenSaleContract.total_supply
    launchpad_url,  \* TokenSaleContract.launchpad_url
    jobs,           \* the promise chains buy_tokens has scheduled, in order
    last,           \* what the latest call of a contract method did
    client,         \* one run of the WASI program (main.rs)
    verify_endpoint \* what the challenge service's verify endpoint would answer

vars == <<owner, tokens_sold, total_supply, launchpad_url, jobs, last, client,
          verify_endpoint>>

ledger == <<owner, tokens_sold, total_supply, launchpad_url>>

-----------------------------------------------------------------------------
(* Bounds and input sets                                                   *)

MaxJobs == 2

Buyers == {"alice.testnet", "bob.testnet"}

\* the browser session of each buyer
SessionOf(buyer) == IF buyer = "alice.testnet" THEN "sess-a" ELSE "sess-b"

Owners == {"owner.testnet"}

LaunchpadUrls == {"https://launchpad"}

Supplies == {100, 200}

\* 0 NEAR, 0.11 NEAR, 0.1100001 NEAR, 1.1 NEAR, 1.6 NEAR
AttachedValues == {0, 1100000, 1100001, 11000000, 16000000}

HttpStatuses == {199, 200, 299, 300, 500}

\* the statuses of HttpStatuses that stand for success
SuccessStatuses == {200, 299}

StatusStrings == {"solved", "timeout", "pending", "expired"}

-----------------------------------------------------------------------------
(* Option<T> is a sequence of length at most one                           *)

None == << >>

Some(x) == << x >>

IsSome(o) == Len(o) = 1

-----------------------------------------------------------------------------
(* lib.rs: constants, in units of 10^17 yoctoNEAR                          *)

MIN_PURCHASE == 1

TOKENS_PER_NEAR == 100

\* 110_000_000_000_000_000_000_000 of line 109
EXECUTION_FLOOR == 1100000

\* 100_000_000_000_000_000_000_000 of line 117
EXECUTION_RESERVE == 1000000

\* 1_000_000_000_000_000_000_000_000 of lines 122 and 200
ONE_NEAR == 10000000

OUTLAYER_CONTRACT_ID == "outlayer.testnet"

\* env::current_account_id(): the account the contract is deployed on
CurrentAccountId == "sale.testnet"

-----------------------------------------------------------------------------
(* main.rs: the HTTP exchange with the challenge service                   *)

\* a request whose send() failed: no response at all
ConnError == [sent |-> FALSE, status |-> 0, readable |-> FALSE, text |-> ""]

\* the body of a successful challenge-creation response
ChallengeJson(id) == "{\"challenge_id\":\"" \o id \o "\"}"

\* the body of a wait or verify response
VerifyJson(status, verified) ==
    "{\"status\":\"" \o status \o "\",\"verified\":"
        \o (IF verified THEN "true" ELSE "false") \o "}"

ChallengeIds == {"c1"}

\* what the service puts in the body of an error response
ErrorTexts == {"internal error"}

ChallengeTexts == {ChallengeJson(id) : id \in ChallengeIds} \cup {"garbage"}

WaitTexts ==
    {VerifyJson(s, v) : s \in StatusStrings, v \in BOOLEAN} \cup {"garbage"}

\* a response with a readable body
HttpResponse(status, text) ==
    [sent |-> TRUE, status |-> status, readable |-> TRUE, text |-> text]

\* every response a request can get: no response, or a status with a body that
\* can be read or not; an error status comes with an error text or, all the
\* same, with the body of a success (good)
Responses(texts, good) ==
    {ConnError} \cup
    {[sent |-> TRUE, status |-> st, readable |-> FALSE, text |-> ""] :
        st \in HttpStatuses} \cup
    {HttpResponse(st, t) : st \in SuccessStatuses, t \in texts} \cup
    {HttpResponse(st, t) :
        st \in HttpStatuses \ SuccessStatuses, t \in ErrorTexts \cup {good}}

ChallengeResponses == Responses(ChallengeTexts, ChallengeJson("c1"))

WaitResponses == Responses(WaitTexts, VerifyJson("solved", TRUE))

\* serde_json::from_slice::<ChallengeResponse>
ParseChallengeResponse(text) ==
    IF \E id \in ChallengeIds : text = ChallengeJson(id)
    THEN Some([challenge_id |->
                 CHOOSE id \in ChallengeIds : text = ChallengeJson(id)])
    ELSE None

\* serde_json::from_slice::<VerifyResponse>
ParseVerifyResponse(text) ==
    IF \E s \in StatusStrings, v \in BOOLEAN : text = VerifyJson(s, v)
    THEN Some(CHOOSE d \in [status : StatusStrings, verified : BOOLEAN] :
                 text = VerifyJson(d.status, d.verified))
    ELSE None

\* status < 200 || status >= 300
IsErrorStatus(status) == status < 200 \/ status >= 300

\* Result<T, Box<dyn Error>>
Ok(v) == [ok |-> TRUE, value |-> v, err |-> ""]

Err(e) == [ok |-> FALSE, value |-> None, err |-> e]

\* challenge_step without the check of the response status
challenge_step_unchecked_status(resp) ==
    IF ~resp.sent THEN Err("connection error")
    ELSE IF ~resp.readable THEN Err("body error")
    ELSE IF ~IsSome(ParseChallengeResponse(resp.text)) THEN Err("json error")
    ELSE Ok(Some(ParseChallengeResponse(resp.text)[1]))

\* step 1 of verify_captcha: the challenge-creation request
challenge_step(resp) ==
    IF ~resp.sent THEN Err("connection error")
    ELSE IF IsErrorStatus(resp.status) THEN
        IF resp.readable
        THEN Err("Failed to create challenge. Status: " \o ToString(resp.status)
                 \o ". Details: " \o resp.text)
        ELSE Err("Failed to create challenge. Status: " \o ToString(resp.status)
                 \o ". Failed to read body: body error")
    ELSE IF ~resp.readable THEN Err("body error")
    ELSE IF ~IsSome(ParseChallengeResponse(resp.text)) THEN Err("json error")
    ELSE Ok(Some(ParseChallengeResponse(resp.text)[1]))

\* classify with the verified flag of a "solved" response ignored
classify_ignoring_flag(verify_data) ==
    CASE verify_data.status = "solved" ->
            [verified |-> TRUE, error_type |-> None]
      [] verify_data.status = "timeout" ->
            [verified |-> FALSE, error_type |-> Some("timeout")]
      [] verify_data.status = "pending" ->
            [verified |-> FALSE, error_type |-> Some("timeout")]
      [] OTHER ->
            [verified |-> FALSE, error_type |-> Some("system_error")]

\* classify without the "pending" arm
classify_without_pending(verify_data) ==
    CASE verify_data.status = "solved" ->
            IF verify_data.verified
            THEN [verified |-> TRUE, error_type |-> None]
            ELSE [verified |-> FALSE, error_type |-> Some("wrong_answer")]
      [] verify_data.status = "timeout" ->
            [verified |-> FALSE, error_type |-> Some("timeout")]
      [] OTHER ->
            [verified |-> FALSE, error_type |-> Some("system_error")]

\* classify with the error types of "solved" and "timeout" exchanged
classify_swapped_error_types(verify_data) ==
    CASE verify_data.status = "solved" ->
            IF verify_data.verified
            THEN [verified |-> TRUE, error_type |-> None]
            ELSE [verified |-> FALSE, error_type |-> Some("timeout")]
      [] verify_data.status = "timeout" ->
            [verified |-> FALSE, error_type |-> Some("wrong_answer")]
      [] verify_data.status = "pending" ->
            [verified |-> FALSE, error_type |-> Some("timeout")]
      [] OTHER ->
            [verified |-> FALSE, error_type |-> Some("system_error")]

\* the match on verify_data.status that ends verify_captcha
classify(verify_data) ==
    CASE verify_data.status = "solved" ->
            IF verify_data.verified
            THEN [verified |-> TRUE, error_type |-> None]
            ELSE [verified |-> FALSE, error_type |-> Some("wrong_answer")]
      [] verify_data.status = "timeout" ->
            [verified |-> FALSE, error_type |-> Some("timeout")]
      [] verify_data.status = "pending" ->
            [verified |-> FALSE, error_type |-> Some("timeout")]
      [] OTHER ->
            [verified |-> FALSE, error_type |-> Some("system_error")]

\* step 2 of verify_captcha: the long-poll request and its interpretation
wait_step(resp) ==
    IF ~resp.sent THEN Err("connection error")
    ELSE IF IsErrorStatus(resp.status) THEN
        IF resp.readable
        THEN Err("Failed to verify CAPTCHA. Status: " \o ToString(resp.status)
                 \o ". Details: " \o resp.text)
        ELSE Err("Failed to verify CAPTCHA. Status: " \o ToString(resp.status)
                 \o ". Failed to read body: body error")
    ELSE IF ~resp.readable THEN Err("body error")
    ELSE IF ~IsSome(ParseVerifyResponse(resp.text)) THEN Err("json error")
    ELSE Ok(Some(classify(ParseVerifyResponse(resp.text)[1])))

\* main_output with no message in the Output it builds for an Err
main_output_without_message(input, ret) ==
    IF ret.ok
    THEN [verified |-> ret.value[1].verified, session_id |-> input.session_id,
          error |-> None, error_type |-> ret.value[1].error_type]
    ELSE [verified |-> FALSE, session_id |-> input.session_id,
          error |-> None, error_type |-> Some("system_error")]

\* main: the Output built from what verify_captcha returned
main_output(input, ret) ==
    IF ret.ok
    THEN [verified |-> ret.value[1].verified, session_id |-> input.session_id,
          error |-> None, error_type |-> ret.value[1].error_type]
    ELSE [verified |-> FALSE, session_id |-> input.session_id,
          error |-> Some("Verification failed: " \o ret.err),
          error_type |-> Some("system_error")]

\* serde_json::to_string(&output): a None field is skipped
to_json(output) ==
    LET keys == {"verified", "session_id"}
                \cup (IF IsSome(output.error) THEN {"error"} ELSE {})
                \cup (IF IsSome(output.error_type) THEN {"error_type"} ELSE {})
    IN  [k \in keys |->
            CASE k = "verified" -> output.verified
              [] k = "session_id" -> output.session_id
              [] k = "error" -> output.error[1]
              [] k = "error_type" -> output.error_type[1]]

\* the URLs verify_captcha requests
challenge_url(input) == input.launchpad_url \o "/api/captcha/challenge"

wait_url(input, challenge_id) ==
    input.launchpad_url \o "/api/captcha/wait/" \o challenge_id \o "?timeout=60"

\* the fields of Input, none of them optional
InputFields == {"session_id", "buyer", "amount", "launchpad_url"}

\* serde_json::from_str::<Input>: a JSON object that has every field of Input
parse_input(stdin) ==
    IF InputFields \subseteq DOMAIN stdin
    THEN Some([session_id |-> stdin.session_id, buyer |-> stdin.buyer,
               amount |-> stdin.amount, launchpad_url |-> stdin.launchpad_url])
    ELSE None

\* a run of the program that is about to read stdin
ClientLaunched(stdin) ==
    [pc |-> "start", stdin |-> stdin, input |-> None, requests |-> << >>,
     responses |-> << >>, challenge_id |-> None,
     stdout |-> << >>, exit |-> "running"]

\* a run of the program that has read its input and is about to send the
\* challenge-creation request
ClientStart(input) ==
    [pc |-> "challenge", input |-> input, requests |-> << >>,
     responses |-> << >>, challenge_id |-> None,
     stdout |-> << >>, exit |-> "running"]

ClientIdle ==
    [pc |-> "idle", input |-> None, requests |-> << >>,
     responses |-> << >>, challenge_id |-> None,
     stdout |-> << >>, exit |-> "none"]

\* main returns the error of its first lines: no output, a failing exit status
Abort(c) == [c EXCEPT !.pc = "done", !.exit = "failure"]

\* Finish propagating an error of verify_captcha as main's own
Finish_propagating_error(c, ret) ==
    IF ret.ok
    THEN [c EXCEPT !.pc = "done",
                   !.stdout = Append(@, to_json(main_output(c.input, ret))),
                   !.exit = "success"]
    ELSE [c EXCEPT !.pc = "done", !.exit = "failure"]

\* the run writes its one output and returns Ok(())
Finish(c, ret) ==
    [c EXCEPT !.pc = "done",
              !.stdout = Append(@, to_json(main_output(c.input, ret))),
              !.exit = "success"]

\* DoChallenge sending the creation request again after a connection error
DoChallenge_retrying(c, resp) ==
    LET ret == challenge_step(resp)
        c1 == [c EXCEPT !.requests =
                  Append(@, [endpoint |-> "challenge", method |-> "POST",
                             url |-> challenge_url(c.input)]),
                        !.responses = Append(@, resp)]
    IN  IF ret.ok
        THEN [c1 EXCEPT !.pc = "wait",
                        !.challenge_id = Some(ret.value[1].challenge_id)]
        ELSE IF ~resp.sent THEN c1
        ELSE Finish(c1, ret)

\* the run up to the end of step 1
DoChallenge(c, resp) ==
    LET ret == challenge_step(resp)
        c1 == [c EXCEPT !.requests =
                  Append(@, [endpoint |-> "challenge", method |-> "POST",
                             url |-> challenge_url(c.input)]),
                        !.responses = Append(@, resp)]
    IN  IF ret.ok
        THEN [c1 EXCEPT !.pc = "wait",
                        !.challenge_id = Some(ret.value[1].challenge_id)]
        ELSE Finish(c1, ret)

\* the run from step 2 to its end
DoWait(c, resp) ==
    LET ret == wait_step(resp)
        c1 == [c EXCEPT !.requests =
                  Append(@, [endpoint |-> "wait", method |-> "GET",
                             url |-> wait_url(c.input, c.challenge_id[1])]),
                        !.responses = Append(@, resp)]
    IN  Finish(c1, ret)

\* what the challenge service said in resp about the challenge, when resp is a
\* success with a well-formed body
Answer(resp) ==
    IF resp.sent /\ resp.status \in SuccessStatuses /\ resp.readable
    THEN ParseVerifyResponse(resp.text)
    ELSE None

\* what the challenge service answered the wait request of run c
WaitAnswer(c) ==
    IF Len(c.responses) >= 2 THEN Answer(c.responses[2]) ELSE None

\* a whole run against a challenge service that behaves as env says
RunClient(input, env) ==
    LET c1 == DoChallenge(ClientStart(input), env.challenge)
    IN  IF c1.pc = "done" THEN c1 ELSE DoWait(c1, env.wait)

-----------------------------------------------------------------------------
(* lib.rs: TokenSaleContract                                               *)

\* min_total without the execution-fee floor
min_total_without_fee == MIN_PURCHASE

\* buy_tokens: the least deposit it accepts
min_total == MIN_PURCHASE + EXECUTION_FLOOR

\* purchase_amount with nothing left for execution
purchase_amount_whole_deposit(total_attached) ==
    IF total_attached >= MIN_PURCHASE * 2
    THEN total_attached
    ELSE MIN_PURCHASE

\* buy_tokens: the part of the deposit that buys tokens
purchase_amount(total_attached) ==
    IF total_attached >= MIN_PURCHASE * 2
    THEN total_attached - EXECUTION_RESERVE
    ELSE MIN_PURCHASE

\* requested_tokens rounding to the nearest whole NEAR
requested_tokens_rounded(amount) ==
    ((amount + ONE_NEAR \div 2) \div ONE_NEAR) * TOKENS_PER_NEAR

\* buy_tokens: the token quantity requested for a purchase amount
requested_tokens(amount) == (amount \div ONE_NEAR) * TOKENS_PER_NEAR

\* buy_tokens: the supply check
supply_allows(sold, tokens, supply) == sold + tokens <= supply

\* issued_tokens multiplying before it divides
issued_tokens_multiply_first(amount) ==
    (amount * TOKENS_PER_NEAR) \div ONE_NEAR

\* on_captcha_verified: the token quantity issued for the callback's amount
issued_tokens(amount) == (amount \div ONE_NEAR) * TOKENS_PER_NEAR

\* buy_tokens: the JSON input handed to the executor, as main.rs's Input reads it
input_data(session_id, buyer, amount, url) ==
    [session_id |-> session_id, buyer |-> buyer, amount |-> ToString(amount),
     launchpad_url |-> url]

\* the executor's JSON result, deserialized as CaptchaResponse
from_json(j) ==
    [verified |-> j["verified"], session_id |-> j["session_id"],
     error |-> IF "error" \in DOMAIN j THEN Some(j["error"]) ELSE None,
     error_type |->
        IF "error_type" \in DOMAIN j THEN Some(j["error_type"]) ELSE None]

\* Promise::new(buyer).transfer(amount)
Transfer(receiver, amount) == [receiver |-> receiver, amount |-> amount]

\* on_captcha_verified transferring the amount back in the verified arm too
on_captcha_verified_commit_and_refund(buyer, amount, result) ==
    IF result.ok /\ IsSome(result.value) /\ result.value[1].verified
    THEN [arm |-> "verified", incremented |-> TRUE,
          tokens |-> issued_tokens(amount),
          transfers |-> << Transfer(buyer, amount) >>]
    ELSE [arm |-> "refund", incremented |-> FALSE, tokens |-> 0,
          transfers |-> << Transfer(buyer, amount) >>]

\* on_captcha_verified with an Err arm that only logs
on_captcha_verified_error_logged(buyer, amount, result) ==
    IF result.ok /\ IsSome(result.value) /\ result.value[1].verified
    THEN [arm |-> "verified", incremented |-> TRUE,
          tokens |-> issued_tokens(amount), transfers |-> << >>]
    ELSE IF result.ok
    THEN [arm |-> "refund", incremented |-> FALSE, tokens |-> 0,
          transfers |-> << Transfer(buyer, amount) >>]
    ELSE [arm |-> "promise_error", incremented |-> FALSE, tokens |-> 0,
          transfers |-> << >>]

\* on_captcha_verified with no guard on response.verified in its first arm
on_captcha_verified_unguarded(buyer, amount, result) ==
    IF result.ok /\ IsSome(result.value)
    THEN [arm |-> "verified", incremented |-> TRUE,
          tokens |-> issued_tokens(amount), transfers |-> << >>]
    ELSE [arm |-> "refund", incremented |-> FALSE, tokens |-> 0,
          transfers |-> << Transfer(buyer, amount) >>]

\* on_captcha_verified checking the supply again before it commits, and
\* refunding when the tokens are gone
on_captcha_verified_checking_supply(buyer, amount, result) ==
    IF /\ result.ok /\ IsSome(result.value) /\ result.value[1].verified
       /\ tokens_sold + issued_tokens(amount) <= total_supply
    THEN [arm |-> "verified", incremented |-> TRUE,
          tokens |-> issued_tokens(amount), transfers |-> << >>]
    ELSE [arm |-> "refund", incremented |-> FALSE, tokens |-> 0,
          transfers |-> << Transfer(buyer, amount) >>]

\* on_captcha_verified: what one invocation does, by the arm of its match
on_captcha_verified(buyer, amount, result) ==
    IF result.ok /\ IsSome(result.value) /\ result.value[1].verified
    THEN [arm |-> "verified", incremented |-> TRUE,
          tokens |-> issued_tokens(amount), transfers |-> << >>]
    ELSE IF result.ok /\ IsSome(result.value)
    THEN [arm |-> "failed", incremented |-> FALSE, tokens |-> 0,
          transfers |-> << Transfer(buyer, amount) >>]
    ELSE IF result.ok
    THEN [arm |-> "none", incremented |-> FALSE, tokens |-> 0,
          transfers |-> << Transfer(buyer, amount) >>]
    ELSE [arm |-> "promise_error", incremented |-> FALSE, tokens |-> 0,
          transfers |-> << Transfer(buyer, amount) >>]

\* #[private] with no check of the predecessor
private_allows_anyone(predecessor) == TRUE

\* #[private]: the method runs only when the contract itself calls it
private_allows(predecessor) == predecessor = CurrentAccountId

NoResult == Err("")

\* the record of a call that is not a callback
CallRecord(op, ok, buyer, attached, job) ==
    [op |-> op, ok |-> ok, caller |-> buyer, attached |-> attached, job |-> job,
     scheduled |-> job # 0, result |-> NoResult, wait |-> None,
     incremented |-> FALSE, transfers |-> << >>]

\* #[init] new(owner, total_supply, launchpad_url)
Init ==
    /\ owner \in Owners
    /\ total_supply \in Supplies
    /\ launchpad_url \in LaunchpadUrls
    /\ tokens_sold = 0
    /\ jobs = << >>
    /\ last = CallRecord("new", TRUE, "", 0, 0)
    /\ client = ClientIdle
    /\ verify_endpoint = None

\* buy_tokens(session_id) called by buyer with total_attached attached: a failed
\* assert! leaves the state as it was; otherwise request_execution is scheduled
\* with the whole deposit, and then on_captcha_verified(buyer, purchase_amount)
BuyTokens(buyer, total_attached) ==
    LET session_id == SessionOf(buyer)
        amount == purchase_amount(total_attached)
        tokens == requested_tokens(amount)
        accepted == /\ total_attached >= min_total
                    /\ supply_allows(tokens_sold, tokens, total_supply)
    IN  /\ accepted => Len(jobs) < MaxJobs
        /\ IF accepted
           THEN /\ jobs' = Append(jobs,
                      [buyer |-> buyer, attached |-> total_attached,
                       deposit |-> total_attached,
                       receiver |-> OUTLAYER_CONTRACT_ID,
                       input |-> input_data(session_id, buyer, amount,
                                            launchpad_url),
                       amount |-> amount, tokens |-> tokens,
                       st |-> "pending", commits |-> 0, refunds |-> << >>])
                /\ last' = CallRecord("buy_tokens", TRUE, buyer, total_attached,
                                      Len(jobs) + 1)
           ELSE /\ jobs' = jobs
                /\ last' = CallRecord("buy_tokens", FALSE, buyer, total_attached, 0)
        /\ UNCHANGED <<ledger, client, verify_endpoint>>

\* the runtime resolves job i's request_execution with result and runs the
\* callback chained to it; wait is what the challenge service answered the run
Callback(i, result, wait) ==
    LET j == jobs[i]
        eff == on_captcha_verified(j.buyer, j.amount, result)
    IN  /\ j.st = "pending"
        /\ private_allows(CurrentAccountId)
        /\ tokens_sold' = IF eff.incremented THEN tokens_sold + eff.tokens
                          ELSE tokens_sold
        /\ jobs' = [jobs EXCEPT
                      ![i].st = "settled",
                      ![i].commits = IF eff.incremented THEN @ + 1 ELSE @,
                      ![i].refunds = @ \o eff.transfers]
        /\ last' = [op |-> "on_captcha_verified", ok |-> TRUE,
                    caller |-> CurrentAccountId,
                    attached |-> 0, job |-> i, scheduled |-> FALSE,
                    result |-> result, wait |-> wait,
                    incremented |-> eff.incremented, transfers |-> eff.transfers]
        /\ UNCHANGED <<owner, total_supply, launchpad_url, client, verify_endpoint>>

\* the arguments an account can pass when it calls on_captcha_verified itself
DirectAmounts == {ONE_NEAR}

DirectResults ==
    {Ok(Some([verified |-> TRUE, session_id |-> "sess-a", error |-> None,
              error_type |-> None])),
     Ok(None)}

\* caller calls on_captcha_verified(buyer, amount) itself, with result as the
\* promise result: #[private] panics unless the caller is the contract
DirectCall(caller, buyer, amount, result) ==
    LET eff == on_captcha_verified(buyer, amount, result)
    IN  /\ IF private_allows(caller)
           THEN /\ tokens_sold' = IF eff.incremented
                                  THEN tokens_sold + eff.tokens
                                  ELSE tokens_sold
                /\ last' = [op |-> "on_captcha_verified", ok |-> TRUE,
                            caller |-> caller,
                            attached |-> 0, job |-> 0, scheduled |-> FALSE,
                            result |-> result, wait |-> None,
                            incremented |-> eff.incremented,
                            transfers |-> eff.transfers]
           ELSE /\ tokens_sold' = tokens_sold
                /\ last' = CallRecord("on_captcha_verified", FALSE, caller, 0, 0)
        /\ UNCHANGED <<owner, total_supply, launchpad_url, jobs, client,
                       verify_endpoint>>

\* the record of a call of a view method, with the value it returns
ViewRecord(op, value) ==
    [op |-> op, ok |-> TRUE, caller |-> "", attached |-> 0, job |-> 0,
     scheduled |-> FALSE, result |-> NoResult, wait |-> None,
     incremented |-> FALSE, transfers |-> << >>, returned |-> value]

\* get_stats(&self)
get_stats == <<tokens_sold, total_supply>>

\* get_price(&self)
get_price == ToString(TOKENS_PER_NEAR) \o " tokens per 1 NEAR"

\* get_launchpad_url(&self)
get_launchpad_url == launchpad_url

\* get_owner(&self)
get_owner == owner

GetStats ==
    /\ last' = ViewRecord("get_stats", get_stats)
    /\ UNCHANGED <<ledger, jobs, client, verify_endpoint>>

GetPrice ==
    /\ last' = ViewRecord("get_price", get_price)
    /\ UNCHANGED <<ledger, jobs, client, verify_endpoint>>

GetLaunchpadUrl ==
    /\ last' = ViewRecord("get_launchpad_url", get_launchpad_url)
    /\ UNCHANGED <<ledger, jobs, client, verify_endpoint>>

GetOwner ==
    /\ last' = ViewRecord("get_owner", get_owner)
    /\ UNCHANGED <<ledger, jobs, client, verify_endpoint>>

\* the inputs buy_tokens can hand to the executor
ClientInputs ==
    {input_data(SessionOf(b), b, purchase_amount(a), u) :
        b \in Buyers, a \in {x \in AttachedValues : x >= min_total},
        u \in LaunchpadUrls}

\* the behaviours of the challenge service during one run that the executor
\* meets, one of each kind: the creation request fails (no response, an error
\* status) and no wait request follows, or it succeeds and the wait request
\* gets no response, an error status, a malformed body or an answer
Environments ==
    {[challenge |-> c, wait |-> ConnError] :
        c \in {ConnError, HttpResponse(500, ChallengeJson("c1"))}}
    \cup {[challenge |-> HttpResponse(200, ChallengeJson("c1")), wait |-> w] :
        w \in {ConnError, HttpResponse(500, VerifyJson("solved", TRUE))}
              \cup {HttpResponse(200, t) : t \in WaitTexts}}

\* every run of main.rs: its input and the service's behaviour decide it
ClientRuns ==
    [input \in ClientInputs, env \in Environments |-> RunClient(input, env)]

\* the executor runs main.rs on job i's input against a challenge service that
\* behaves as env says, and delivers the program's output
ExecutorDelivers(i, env) ==
    LET run == ClientRuns[jobs[i].input, env]
    IN  Callback(i, Ok(Some(from_json(run.stdout[1]))), WaitAnswer(run))

\* the executor delivers no output for job i
ExecutionFails(i) == Callback(i, Ok(None), None)

\* the promise of job i's request_execution fails
PromiseFails(i) == Callback(i, Err("PromiseError::Failed"), None)

\* the error_type of an unverified CaptchaResponse that main.rs does not
\* write: none, the one on_captcha_verified has a message for, an unknown one
OtherErrorTypes == {None, Some("network_error"), Some("unknown")}

\* the executor delivers for job i an unverified CaptchaResponse that is not
\* an output of main.rs
ExecutorDeliversOther(i, error_type) ==
    Callback(i,
             Ok(Some([verified |-> FALSE,
                      session_id |-> SessionOf(jobs[i].buyer),
                      error |-> None, error_type |-> error_type])),
             None)

Next ==
    \/ \E buyer \in Buyers, a \in AttachedValues : BuyTokens(buyer, a)
    \/ \E i \in DOMAIN jobs, env \in Environments : ExecutorDelivers(i, env)
    \/ \E i \in DOMAIN jobs : ExecutionFails(i)
    \/ \E i \in DOMAIN jobs : PromiseFails(i)
    \/ \E i \in DOMAIN jobs, error_type \in OtherErrorTypes :
          ExecutorDeliversOther(i, error_type)
    \/ \E caller \in Buyers, buyer \in Buyers, amount \in DirectAmounts,
          result \in DirectResults : DirectCall(caller, buyer, amount, result)
    \/ GetStats
    \/ GetPrice
    \/ GetLaunchpadUrl
    \/ GetOwner

Spec == Init /\ [][Next]_vars

\* the runtime resolves the promise of job i: with the program's output, with
\* no output, or with a failure
Resolve(i) ==
    /\ i \in DOMAIN jobs
    /\ \/ \E env \in Environments : ExecutorDelivers(i, env)
       \/ ExecutionFails(i)
       \/ PromiseFails(i)
       \/ \E error_type \in OtherErrorTypes :
             ExecutorDeliversOther(i, error_type)

\* the executor and the runtime leave no scheduled promise unresolved
FairSpec == Spec /\ \A i \in 1..MaxJobs : WF_vars(Resolve(i))

-----------------------------------------------------------------------------
(* One run of main.rs, request by request                                  *)

\* what a run can find on stdin: an input of buy_tokens, or a JSON object that
\* lacks fields of Input
StdinValues == ClientInputs \cup {[session_id |-> "sess-a"]}

\* what the verify endpoint can answer: nothing, or a status and a flag
VerifyAnswers ==
    {None} \cup {Some(d) : d \in [status : StatusStrings, verified : BOOLEAN]}

InitClient ==
    /\ owner \in Owners
    /\ total_supply \in Supplies
    /\ launchpad_url \in LaunchpadUrls
    /\ tokens_sold = 0
    /\ jobs = << >>
    /\ last = CallRecord("new", TRUE, "", 0, 0)
    /\ client \in {ClientLaunched(stdin) : stdin \in StdinValues}
    /\ verify_endpoint \in VerifyAnswers

\* main reads stdin and parses it as Input; an error here is main's own result
ReadInput ==
    /\ client.pc = "start"
    /\ client' = IF IsSome(parse_input(client.stdin))
                 THEN ClientStart(parse_input(client.stdin)[1])
                 ELSE Abort(client)
    /\ UNCHANGED <<ledger, jobs, last, verify_endpoint>>

\* step 1: the challenge-creation request gets resp
ChallengeRequest(resp) ==
    /\ client.pc = "challenge"
    /\ client' = DoChallenge(client, resp)
    /\ UNCHANGED <<ledger, jobs, last, verify_endpoint>>

\* step 2: the long-poll request gets resp
WaitRequest(resp) ==
    /\ client.pc = "wait"
    /\ client' = DoWait(client, resp)
    /\ UNCHANGED <<ledger, jobs, last, verify_endpoint>>

NextClient ==
    \/ ReadInput
    \/ \E resp \in ChallengeResponses : ChallengeRequest(resp)
    \/ \E resp \in WaitResponses : WaitRequest(resp)

SpecClient == InitClient /\ [][NextClient]_vars

-----------------------------------------------------------------------------
(* Properties                                                              *)

\* the latest call was the callback of a scheduled promise chain
IsCallback == last.op = "on_captcha_verified" /\ last.job \in DOMAIN jobs

\* the result handed to a callback carries a verified payload
IsVerified(result) ==
    result.ok /\ IsSome(result.value) /\ result.value[1].verified

SolvedTrue == Some([status |-> "solved", verified |-> TRUE])

\* C1: in every reachable state tokens_sold <= total_supply.
C1_SoldWithinSupply == tokens_sold <= total_supply

\* C2: tokens_sold is incremented for an intent only if the challenge service
\* answered that intent's wait request with status "solved" and verified = true;
\* every other behaviour of the service, and an absent or failed executor
\* result, leaves the intent without an increment.
C2_CommitOnlyIfSolved ==
    IsCallback =>
        /\ last.incremented => last.wait = SolvedTrue
        /\ last.wait # SolvedTrue =>
              /\ ~last.incremented
              /\ jobs[last.job].commits = 0

C2_Witness ==
    /\ IsCallback
    /\ last.incremented
    /\ last.wait = SolvedTrue
    /\ jobs[last.job].commits = 1
    /\ tokens_sold > 0

\* C3: one invocation of on_captcha_verified, whatever result it is handed
\* (a verified payload, an unverified payload with any error_type or none, no
\* payload, a promise error), either raises tokens_sold or transfers a refund to
\* the buyer, never both and never neither, and every input that is not
\* verified results in a refund.
C3_OneEffectPerCallback ==
    [][ \A i \in DOMAIN jobs :
            (jobs[i].st = "pending" /\ jobs'[i].st = "settled") =>
                LET incremented == tokens_sold' > tokens_sold
                    refunded == /\ Len(jobs'[i].refunds) = 1
                                /\ jobs'[i].refunds[1].receiver = jobs[i].buyer
                IN  /\ incremented \/ refunded
                    /\ ~(incremented /\ refunded)
                    /\ ~IsVerified(last'.result) => refunded
      ]_vars

\* C4 as stated: the amount on_captcha_verified transfers back equals the value
\* the buyer attached to buy_tokens.
C4_RefundIsAttached ==
    \A i \in DOMAIN jobs :
        \A k \in DOMAIN jobs[i].refunds :
            jobs[i].refunds[k].amount = jobs[i].deposit

\* C4, amended: an intent whose continuation did not commit got one transfer, to
\* its buyer, of the attached value less the 0.1 NEAR reserved for execution.
C4_RefundIsPurchaseAmount ==
    \A i \in DOMAIN jobs :
        (jobs[i].st = "settled" /\ jobs[i].commits = 0) =>
            jobs[i].refunds =
                << [receiver |-> jobs[i].buyer,
                    amount |-> jobs[i].deposit - EXECUTION_RESERVE] >>

C4_Witness ==
    \E i \in DOMAIN jobs :
        /\ jobs[i].st = "settled"
        /\ jobs[i].commits = 0
        /\ Len(jobs[i].refunds) = 1
        /\ jobs[i].deposit = 11000000

\* C5: a continuation step leaves tokens_sold unchanged (refund) or raises it by
\* exactly the token quantity buy_tokens derived for that intent (commit), and
\* tokens_sold changes in no other way.
C5_CommitAddsDerivedQuantity ==
    [][ /\ \A i \in DOMAIN jobs :
              (jobs[i].st = "pending" /\ jobs'[i].st = "settled") =>
                  \/ /\ jobs'[i].commits = 0
                     /\ tokens_sold' = tokens_sold
                  \/ /\ jobs'[i].commits = 1
                     /\ jobs'[i].refunds = << >>
                     /\ tokens_sold' = tokens_sold + jobs[i].tokens
        /\ tokens_sold' # tokens_sold =>
              \E i \in DOMAIN jobs :
                  jobs[i].st = "pending" /\ jobs'[i].st = "settled"
      ]_vars

C5_Witness ==
    \E i \in DOMAIN jobs :
        /\ jobs[i].commits = 1
        /\ jobs[i].tokens = 100
        /\ tokens_sold = 200

\* C6: a buy_tokens call with less attached than the minimum purchase plus the
\* execution-fee floor is rejected: the ledger is unchanged, nothing is
\* scheduled on the executor and no continuation is registered.
C6_BelowFloorRejected ==
    [][ (last'.op = "buy_tokens"
            /\ last'.attached < MIN_PURCHASE + EXECUTION_FLOOR) =>
            /\ ~last'.ok
            /\ ~last'.scheduled
            /\ jobs' = jobs
            /\ UNCHANGED ledger
      ]_vars

C6_Witness ==
    /\ last.op = "buy_tokens"
    /\ last.attached = EXECUTION_FLOOR
    /\ ~last.ok
    /\ ~last.scheduled

\* C7: while tokens_sold = total_supply, every buy_tokens call that attaches at
\* least the minimum floor is rejected and schedules nothing on the executor.
C7_SoldOutRejected ==
    (/\ last.op = "buy_tokens"
     /\ last.attached >= MIN_PURCHASE + EXECUTION_FLOOR
     /\ tokens_sold = total_supply) =>
        ~last.ok /\ ~last.scheduled

-----------------------------------------------------------------------------
(* Properties of one run of main.rs                                        *)

RunDone == client.pc = "done"

Endpoints(c) == [k \in DOMAIN c.requests |-> c.requests[k].endpoint]

VerifyRequests(c) ==
    Cardinality({k \in DOMAIN c.requests : c.requests[k].endpoint = "verify"})

\* the JSON output for a verification outcome with no error message
OutcomeJson(session_id, verified, error_type) ==
    IF verified
    THEN [verified |-> TRUE, session_id |-> session_id]
    ELSE [verified |-> FALSE, session_id |-> session_id,
          error_type |-> error_type]

\* C8 as stated: after a wait response "pending" the client sends exactly one
\* verify request and classifies by its answer: "solved" gives verified or
\* wrong_answer by the flag, anything else (a failed request too) gives timeout.
C8_PendingRetriesOnce ==
    (RunDone /\ IsSome(WaitAnswer(client))
        /\ WaitAnswer(client)[1].status = "pending") =>
        /\ VerifyRequests(client) = 1
        /\ Len(client.stdout) = 1
        /\ client.stdout[1] =
              IF IsSome(verify_endpoint) /\ verify_endpoint[1].status = "solved"
              THEN IF verify_endpoint[1].verified
                   THEN OutcomeJson(client.input.session_id, TRUE, "")
                   ELSE OutcomeJson(client.input.session_id, FALSE, "wrong_answer")
              ELSE OutcomeJson(client.input.session_id, FALSE, "timeout")

\* C8, amended: after a wait response "pending" the client sends no further
\* request and its output is verified = false with error_type "timeout",
\* whatever the verify endpoint would have answered.
C8_PendingIsTimeout ==
    (RunDone /\ IsSome(WaitAnswer(client))
        /\ WaitAnswer(client)[1].status = "pending") =>
        /\ Endpoints(client) = << "challenge", "wait" >>
        /\ Len(client.stdout) = 1
        /\ client.stdout[1] =
              OutcomeJson(client.input.session_id, FALSE, "timeout")

C8_Witness ==
    /\ RunDone
    /\ WaitAnswer(client) = Some([status |-> "pending", verified |-> FALSE])
    /\ verify_endpoint = Some([status |-> "solved", verified |-> FALSE])
    /\ Len(client.stdout) = 1

\* C9: a wait response with a success status and a (status, verified) body gets
\* exactly one output: ("solved", true) verified with no error_type;
\* ("solved", false) wrong_answer; ("timeout", any) timeout; any status string
\* other than "pending" system_error.
C9_ClassificationTotal ==
    (RunDone /\ IsSome(WaitAnswer(client))) =>
        LET a == WaitAnswer(client)[1]
            sid == client.input.session_id
        IN  /\ Len(client.stdout) = 1
            /\ (a.status = "solved" /\ a.verified) =>
                  client.stdout[1] = OutcomeJson(sid, TRUE, "")
            /\ (a.status = "solved" /\ ~a.verified) =>
                  client.stdout[1] = OutcomeJson(sid, FALSE, "wrong_answer")
            /\ a.status = "timeout" =>
                  client.stdout[1] = OutcomeJson(sid, FALSE, "timeout")
            /\ a.status \notin {"solved", "timeout", "pending"} =>
                  client.stdout[1] = OutcomeJson(sid, FALSE, "system_error")

C9_Witness ==
    /\ RunDone
    /\ WaitAnswer(client) = Some([status |-> "expired", verified |-> TRUE])
    /\ client.stdout[1]["error_type"] = "system_error"

\* C10: when the challenge-creation request gets a non-success status the run
\* ends there: no wait and no verify request is sent, and the single output is
\* verified = false with error_type "system_error".
C10_CreationFailureAborts ==
    (Len(client.responses) >= 1 /\ client.responses[1].sent
        /\ client.responses[1].status \notin 200..299) =>
        /\ RunDone
        /\ Endpoints(client) = << "challenge" >>
        /\ Len(client.stdout) = 1
        /\ client.stdout[1]["verified"] = FALSE
        /\ "error_type" \in DOMAIN client.stdout[1]
        /\ client.stdout[1]["error_type"] = "system_error"

C10_Witness ==
    /\ RunDone
    /\ Len(client.responses) = 1
    /\ client.responses[1].status = 500
    /\ client.responses[1].text = ChallengeJson("c1")
    /\ client.stdout[1]["error_type"] = "system_error"

\* C11: a run that has read its input writes, whatever the challenge service
\* and the transport do, exactly one output, which carries the input's
\* session_id, and exits with success; it writes nothing before it ends.
C11_OneOutputAndSuccess ==
    /\ client.pc \in {"challenge", "wait"} =>
          client.stdout = << >> /\ client.exit = "running"
    /\ (RunDone /\ Len(client.requests) >= 1) =>
          /\ Len(client.stdout) = 1
          /\ client.stdout[1]["session_id"] = client.input.session_id
          /\ client.exit = "success"

C11_Witness ==
    /\ RunDone
    /\ Len(client.responses) = 2
    /\ ~client.responses[2].sent
    /\ Len(client.stdout) = 1
    /\ client.stdout[1]["verified"] = FALSE
    /\ client.exit = "success"

-----------------------------------------------------------------------------
(* Properties of the sale over sequences of calls                          *)

\* the number of effects applied for a scheduled intent
Effects(j) == j.commits + Len(j.refunds)

\* C12: no scheduled intent is both committed and refunded, committed twice or
\* refunded twice, and none has an effect while it is pending or a further one
\* once it is settled; an accepted buy_tokens registers exactly one
\* continuation, and nothing else registers one.
C12_AtMostOneEffect ==
    [][ /\ \A i \in DOMAIN jobs' :
              /\ Effects(jobs'[i]) <= 1
              /\ jobs'[i].st = "pending" => Effects(jobs'[i]) = 0
        /\ \A i \in DOMAIN jobs :
              jobs[i].st = "settled" => jobs'[i] = jobs[i]
        /\ (last'.op = "buy_tokens" /\ last'.ok) =>
              /\ Len(jobs') = Len(jobs) + 1
              /\ SubSeq(jobs', 1, Len(jobs)) = jobs
              /\ jobs'[Len(jobs')].st = "pending"
              /\ jobs'[Len(jobs')].buyer = last'.caller
        /\ Len(jobs') # Len(jobs) => (last'.op = "buy_tokens" /\ last'.ok)
      ]_vars

C12_Witness ==
    \E i, k \in DOMAIN jobs :
        /\ jobs[i].st = "settled" /\ jobs[k].st = "settled"
        /\ jobs[i].commits = 1 /\ jobs[i].refunds = << >>
        /\ jobs[k].commits = 0 /\ Len(jobs[k].refunds) = 1

\* job i has been scheduled and its continuation has not run
Pending(i) == i \in DOMAIN jobs /\ jobs[i].st = "pending"

\* job i has ended in a commit or in a refund to its buyer
Terminal(i) ==
    /\ i \in DOMAIN jobs
    /\ jobs[i].st = "settled"
    /\ \/ jobs[i].commits = 1 /\ jobs[i].refunds = << >>
       \/ /\ jobs[i].commits = 0
          /\ Len(jobs[i].refunds) = 1
          /\ jobs[i].refunds[1].receiver = jobs[i].buyer

\* C13: when the executor delivers a result or a failure for every job it was
\* given, every accepted buy_tokens dispatch leads to a commit or to a refund:
\* no intent stays pending forever and none ends in another state.
C13_EveryIntentSettles ==
    \A i \in 1..MaxJobs : Pending(i) ~> Terminal(i)

C13_Witness ==
    /\ Pending(1)
    /\ Terminal(2)
    /\ jobs[2].commits = 0

ViewOps == {"get_stats", "get_price", "get_launchpad_url", "get_owner"}

\* C14: tokens_sold never decreases and only a continuation with a verified
\* payload changes it; buy_tokens, accepted or rejected, every refund path of
\* the continuation and the four view methods leave tokens_sold, total_supply,
\* owner and launchpad_url as they were.
C14_LedgerFrame ==
    [][ /\ tokens_sold' >= tokens_sold
        /\ tokens_sold' # tokens_sold =>
              /\ last'.op = "on_captcha_verified"
              /\ IsVerified(last'.result)
        /\ (last'.op = "on_captcha_verified" /\ ~IsVerified(last'.result)) =>
              UNCHANGED ledger
        /\ last'.op \in {"buy_tokens"} \cup ViewOps => UNCHANGED ledger
        /\ UNCHANGED <<owner, total_supply, launchpad_url>>
      ]_vars

C14_Witness ==
    /\ last.op = "get_stats"
    /\ last.returned = <<100, 200>>
    /\ \E i \in DOMAIN jobs : Len(jobs[i].refunds) = 1

RECURSIVE CommittedTokens(_)
\* the tokens of the committed intents among js
CommittedTokens(js) ==
    IF js = << >> THEN 0
    ELSE js[1].commits * js[1].tokens + CommittedTokens(Tail(js))

\* C15: intents outstanding together are independent: a continuation changes
\* its own intent and no other, what it applies (commit or refund, and the
\* quantity) is decided by its own intent and the result delivered for it, and
\* tokens_sold is the sum over the committed intents, the same for every order
\* of delivery.
C15_IntentsIndependent ==
    [][ /\ tokens_sold' = CommittedTokens(jobs')
        /\ \A i \in DOMAIN jobs :
              jobs'[i] # jobs[i] =>
                  /\ last'.op = "on_captcha_verified"
                  /\ last'.job = i
                  /\ \A k \in DOMAIN jobs \ {i} : jobs'[k] = jobs[k]
                  /\ jobs'[i].commits =
                        IF IsVerified(last'.result) THEN 1 ELSE 0
                  /\ Len(jobs'[i].refunds) =
                        IF IsVerified(last'.result) THEN 0 ELSE 1
                  /\ tokens_sold' - tokens_sold =
                        jobs'[i].commits * jobs[i].tokens
      ]_vars

C15_Witness ==
    /\ IsCallback
    /\ last.job = 1
    /\ Len(jobs) = 2
    /\ jobs[2].st = "settled"
    /\ jobs[1].commits = 1
    /\ jobs[2].commits = 1
    /\ jobs[1].tokens = 100

-----------------------------------------------------------------------------
(* Further properties of one run of main.rs                                *)

\* resp is no usable answer to the creation request
CreationFailed(resp) ==
    \/ ~resp.sent
    \/ resp.status \notin 200..299
    \/ ~resp.readable
    \/ \A id \in ChallengeIds : resp.text # ChallengeJson(id)

\* C16: a run sends at most one challenge-creation request, then at most one
\* wait request, then at most one verify request and that only after a
\* "pending" wait answer, in that order; a failed creation request ends the
\* run with one classified output and no further request, and the run has
\* ended once the wait request is answered.
C16_BoundedRequests ==
    /\ Endpoints(client) \in
          {<< >>, << "challenge" >>, << "challenge", "wait" >>,
           << "challenge", "wait", "verify" >>}
    /\ VerifyRequests(client) = 1 =>
          /\ IsSome(WaitAnswer(client))
          /\ WaitAnswer(client)[1].status = "pending"
    /\ Len(client.responses) = Len(client.requests)
    /\ (Len(client.responses) >= 1 /\ CreationFailed(client.responses[1])) =>
          /\ RunDone
          /\ Len(client.requests) = 1
          /\ Len(client.stdout) = 1
          /\ "error_type" \in DOMAIN client.stdout[1]
    /\ Len(client.responses) >= 2 =>
          /\ RunDone
          /\ Len(client.stdout) = 1
    /\ client.pc \in {"start", "challenge", "wait", "done"}

C16_Witness ==
    /\ RunDone
    /\ Endpoints(client) = << "challenge" >>
    /\ ~client.responses[1].sent
    /\ client.stdout[1]["error_type"] = "system_error"

\* resp is no usable answer to the wait request
WaitFailed(resp) ==
    \/ ~resp.sent
    \/ resp.status \notin 200..299
    \/ ~resp.readable
    \/ \A s \in StatusStrings, v \in BOOLEAN : resp.text # VerifyJson(s, v)

\* run c met a failure of the transport at its creation or its wait request
TransportFailure(c) ==
    \/ Len(c.responses) = 1 /\ CreationFailed(c.responses[1])
    \/ Len(c.responses) = 2 /\ WaitFailed(c.responses[2])

\* C18: a run that met a connection error, a non-success status or a malformed
\* body at the creation or the wait request outputs verified = false with an
\* error message; the outputs for the challenge service's own outcomes
\* (wrong_answer, timeout, unknown status) carry no error message, so the two
\* kinds never coincide.
C18_TransportFailureDistinct ==
    (RunDone /\ Len(client.requests) >= 1) =>
        LET out == client.stdout[1]
            sid == client.input.session_id
        IN  /\ TransportFailure(client) =>
                  /\ out["verified"] = FALSE
                  /\ "error" \in DOMAIN out
                  /\ out["error"] # ""
                  /\ \A e \in {"wrong_answer", "timeout", "system_error"} :
                        out # OutcomeJson(sid, FALSE, e)
            /\ ~TransportFailure(client) =>
                  /\ IsSome(WaitAnswer(client))
                  /\ "error" \notin DOMAIN out

C18_Witness ==
    /\ RunDone
    /\ Len(client.responses) = 2
    /\ client.responses[2].status = 200
    /\ client.responses[2].text = "garbage"
    /\ "error" \in DOMAIN client.stdout[1]

-----------------------------------------------------------------------------
(* Further properties of the sale                                          *)

\* the whole NEAR a purchase can amount to
WholeNear == 0..3

\* C17: for every accepted attached value A the quantity derived at dispatch
\* is floor((A - 0.1 NEAR) / 1 NEAR) * 100; A is above the threshold under
\* which buy_tokens falls back to MIN_PURCHASE, so the registered amount is
\* A - 0.1 NEAR; and the quantity the continuation computes from the registered
\* amount is the quantity derived at dispatch.
C17_DerivedQuantity ==
    \A i \in DOMAIN jobs :
        LET A == jobs[i].attached
            paid == A - EXECUTION_RESERVE
        IN  /\ A >= MIN_PURCHASE * 2
            /\ jobs[i].amount = paid
            /\ \E q \in WholeNear :
                  /\ q * ONE_NEAR <= paid
                  /\ paid < (q + 1) * ONE_NEAR
                  /\ jobs[i].tokens = q * 100
            /\ issued_tokens(jobs[i].amount) = jobs[i].tokens

C17_Witness ==
    \E i \in DOMAIN jobs :
        /\ jobs[i].attached = 16000000
        /\ jobs[i].amount = 15000000
        /\ jobs[i].tokens = 100
        /\ jobs[i].commits = 1

RECURSIVE TotalAmount(_)
\* the sum of the amounts of the transfers ts
TotalAmount(ts) ==
    IF ts = << >> THEN 0 ELSE ts[1].amount + TotalAmount(Tail(ts))

\* what the contract has sent out for intent j: the deposit forwarded to the
\* executor and the refunds transferred to the buyer
SentOut(j) == j.deposit + TotalAmount(j.refunds)

\* C19: for every intent the value the contract sends out on its behalf, the
\* funding forwarded to the executor plus any refund transferred to the buyer,
\* does not exceed the value attached to that intent.
C19_OutflowWithinAttached ==
    \A i \in DOMAIN jobs : SentOut(jobs[i]) <= jobs[i].attached

\* C20: a call of on_captcha_verified by an account other than the contract
\* is rejected, whatever buyer, amount and result it passes: it changes neither
\* tokens_sold nor any intent and makes no transfer; the method takes effect
\* only when the contract invokes it as the continuation of a pending
\* buy_tokens dispatch.
C20_CallbackIsPrivate ==
    [][ /\ (last'.op = "on_captcha_verified"
               /\ last'.caller # CurrentAccountId) =>
              /\ ~last'.ok
              /\ ~last'.incremented
              /\ last'.transfers = << >>
              /\ tokens_sold' = tokens_sold
              /\ jobs' = jobs
        /\ (last'.op = "on_captcha_verified" /\ last'.ok) =>
              /\ last'.caller = CurrentAccountId
              /\ last'.job \in DOMAIN jobs
              /\ jobs[last'.job].st = "pending"
              /\ jobs'[last'.job].st = "settled"
      ]_vars

C20_Witness ==
    /\ last.op = "on_captcha_verified"
    /\ last.caller = "alice.testnet"
    /\ ~last.ok
    /\ tokens_sold = 0
    /\ \E i \in DOMAIN jobs :
          jobs[i].buyer = "alice.testnet" /\ jobs[i].st = "pending"

====
